---- MODULE Spec2Model ----
(***************************************************************************)
(* Model of tk-houdini-arnoldnode: the node handler                        *)
(* (python/tk_houdini_arnoldnode/handler.py) acting on a Houdini session.  *)
(*                                                                         *)
(* The session (the host's node graph) is the state.  A node is a record   *)
(*   type   : the node type name ("sgtk_arnold", "ifd", "null")            *)
(*   name   : its name, a string                                            *)
(*   pos    : its position                                                 *)
(*   parms  : parameter name -> value, defined on the parameters the node  *)
(*            has (node.parm(n) is None outside the domain)                *)
(*   locked : the parameter names that are locked                          *)
(*   user   : the user-data dictionary (key -> string)                     *)
(*   color  : its display colour                                           *)
(*   inputs : input index -> upstream node id, or None                     *)
(* and the scene maps the ids of the existing nodes to their records.      *)
(*                                                                         *)
(* Strings the code looks into (startswith, replace, "%s" formatting) are  *)
(* sequences of tokens, so that a prefix test or a separator replacement   *)
(* is computed and not assumed: "sgtk_ar_filename" is <<"sgtk_",           *)
(* "ar_filename">>, a path is <<"proj", "/", "render", ...>>.              *)
(***************************************************************************)
EXTENDS Integers, Sequences, FiniteSets, TLC

VARIABLES scene, env, last

vars == <<scene, env, last>>

\* ------------------------------------------------------------------ bounds
MaxSlots == 3
MaxConns == 3
MaxPlanes == 1
TkSlots == 2
MaxSceneNodes == 4

\* ------------------------------------------------------------------ values
None == 0

NoExc == "none"

\* An operation's outcome: the scene it leaves, the exception it raised and
\* the events it produced, in order (parameter writes and lock changes,
\* log lines).
Ok(s) == [s |-> s, exc |-> NoExc, log |-> <<>>]
Raise(s, e) == [s |-> s, exc |-> e, log |-> <<>>]

\* r, then F on the scene r leaves, unless r raised.
Then(r, F(_)) ==
    LET first == r
    IN IF first.exc # NoExc THEN first
       ELSE LET q == F(first.s)
            IN [s |-> q.s, exc |-> q.exc, log |-> first.log \o q.log]

Logged(r, ev) == [s |-> r.s, exc |-> r.exc, log |-> <<ev>> \o r.log]

\* ------------------------------------------------------------ class data
HOU_ARNOLD_NODE_TYPE == "ifd"
TK_ARNOLD_NODE_TYPE == "sgtk_arnold"
TK_PREFIX == "sgtk_"
NODE_OUTPUT_PATH_PARM == <<"sgtk_", "ar_filename">>
TK_EXTRA_PLANE_COUNT_PARM == <<"ar_aovs">>
TK_INIT_PARM_NAME == <<"sgtk_", "initialized">>
TK_HIP_PATH_PARM_NAME == <<"sgtk_", "hip_path">>
TK_OUTPUT_PROFILE_PARM == <<"sgtk_", "output_profile">>
TK_OUTPUT_PROFILE_NAME_KEY == <<"tk_output_profile_name">>

\* TK_EXTRA_PLANES_NAME % (n,)
TK_EXTRA_PLANES_NAME(n) == <<"ar_aov_label", ToString(n)>>

\* str.startswith on a tokenised string.
StartsWith(str, prefix) == Len(str) > 0 /\ str[1] = prefix

\* ------------------------------------------------------ host: parameters
\* A parameter's value: its template's kind ("int", "str", "folder"), the
\* integer or the raw (unexpanded) string it holds, and its keyframes.
IntV(i) == [k |-> "int", i |-> i, s |-> <<>>, keys |-> <<>>]
StrV(str) == [k |-> "str", i |-> 0, s |-> str, keys |-> <<>>]
FolderV == [k |-> "folder", i |-> 0, s |-> <<>>, keys |-> <<>>]

\* The names of the per-plane parameters of plane n: the native node's and
\* the toolkit node's own.
NativePlaneParms(n) ==
    {<<"ar_aov_label", ToString(n)>>, <<"ar_aov_separate", ToString(n)>>,
     <<"ar_aov_separate_file", ToString(n)>>}
TkPlaneParms(n) == {<<"sgtk_", "ar_aov_separate_file", ToString(n)>>}
PlaneParms(type, n) ==
    IF type = TK_ARNOLD_NODE_TYPE THEN NativePlaneParms(n) \cup TkPlaneParms(n)
    ELSE NativePlaneParms(n)

PlaneDefault(p) ==
    IF p[1] = "ar_aov_separate" THEN IntV(0) ELSE StrV(<<>>)

\* Expansion of a raw string by parm.eval(): the frame variable is replaced.
Expand(str) == [j \in DOMAIN str |-> IF str[j] = "$F" THEN "1" ELSE str[j]]

\* parm.eval() and parm.unexpandedString(), as values of the kind they have.
Eval(v) == IF v.k = "str" THEN StrV(Expand(v.s)) ELSE IntV(v.i)

HasParm(s, n, p) == p \in DOMAIN s[n].parms

\* The multiparm resize the host performs when the plane count is set: the
\* instances 1..count exist afterwards, new ones with their defaults.
Resize(node, count) ==
    LET keep == {p \in DOMAIN node.parms :
                    \A m \in 1 .. MaxPlanes :
                        p \in PlaneParms(node.type, m) => m <= count}
        want == keep \cup UNION {PlaneParms(node.type, m) : m \in 1 .. count}
    IN [node EXCEPT
          !.parms = [p \in want |->
                        IF p \in DOMAIN node.parms THEN node.parms[p]
                        ELSE PlaneDefault(p)],
          !.locked = node.locked \cap want]

\* node.parm(p).set(v): AttributeError when the node has no such parameter
\* (node.parm returns None), hou.PermissionError when it is locked,
\* TypeError when the value's type is not the parameter's.
SetParm(s, n, p, v) ==
    IF ~HasParm(s, n, p) THEN Raise(s, "AttributeError")
    ELSE IF p \in s[n].locked THEN Raise(s, "PermissionError")
    ELSE IF v.k # s[n].parms[p].k THEN Raise(s, "TypeError")
    ELSE LET s1 == [s EXCEPT ![n].parms[p] = [v EXCEPT !.keys = <<>>]]
             s2 == IF p = TK_EXTRA_PLANE_COUNT_PARM
                   THEN [s1 EXCEPT ![n] = Resize(s1[n], v.i)]
                   ELSE s1
         IN [s |-> s2, exc |-> NoExc, log |-> <<[ev |-> "set", node |-> n, parm |-> p]>>]

\* node.parm(p).lock(on)
LockParm(s, n, p, on) ==
    IF ~HasParm(s, n, p) THEN Raise(s, "AttributeError")
    ELSE [s |-> [s EXCEPT ![n].locked = IF on THEN @ \cup {p} ELSE @ \ {p}],
          exc |-> NoExc,
          log |-> <<[ev |-> IF on THEN "lock" ELSE "unlock", node |-> n, parm |-> p]>>]

\* target_parm.setKeyframe(key) for every key of the source parameter.
SetKeyframes(s, n, p, keys) ==
    Ok([s EXCEPT ![n].parms[p].keys = keys, ![n].parms[p].i = keys[Len(keys)].v])

\* node.parms(): the node's parameters in the order of its parameter
\* interface: the count of a multiparm comes before its instances.
RECURSIVE PlaneOrder(_, _)
PlaneOrder(m, count) ==
    IF m > count THEN <<>>
    ELSE << <<"ar_aov_label", ToString(m)>>, <<"ar_aov_separate", ToString(m)>>,
            <<"ar_aov_separate_file", ToString(m)>>,
            <<"sgtk_", "ar_aov_separate_file", ToString(m)>> >>
         \o PlaneOrder(m + 1, count)

ParmOrder ==
    << <<"sgtk_", "output_profile">>, <<"sgtk_", "initialized">>,
       <<"sgtk_", "hip_path">>, <<"sgtk_", "ass_diskfile">>,
       <<"sgtk_", "ar_filename">>, <<"sgtk_", "ar_picture">>,
       <<"folder0">>, <<"trange">>, <<"lpre", "render">>, <<"lpost", "render">>,
       <<"ar_picture">>, <<"ar_ass_file">>, <<"ar_aovs">> >>
    \o PlaneOrder(1, MaxPlanes)

Parms(s, n) ==
    LET F[j \in 0 .. Len(ParmOrder)] ==
            IF j = 0 THEN <<>>
            ELSE IF HasParm(s, n, ParmOrder[j]) THEN Append(F[j - 1], ParmOrder[j])
            ELSE F[j - 1]
    IN F[Len(ParmOrder)]

\* ------------------------------------------------------ _copy_parm_values
\* The excludes list holds whatever the caller put in it: parameter objects
\* (hou.Parm) or names.  `parm.name() not in excludes` compares a name, a
\* string, with each element, and a string equals no parameter object.
ParmObject(n, p) == [isName |-> FALSE, node |-> n, name |-> p]
InExcludes(name, excludes) ==
    \E e \in excludes : e.isName /\ e.name = name

\* Mutant: the two language names are swapped.
ValueMap_Swapped(i) ==
    IF i = 0 THEN [ok |-> TRUE, v |-> StrV(<<"python">>)]
    ELSE [ok |-> TRUE, v |-> StrV(<<"hscript">>)]

\* value_map[source_parm.eval()]
ValueMap(i) ==
    IF i = 0 THEN [ok |-> TRUE, v |-> StrV(<<"hscript">>)]
    ELSE IF i = 1 \/ i = -1 THEN [ok |-> TRUE, v |-> StrV(<<"python">>)]
    ELSE IF i = -2 THEN [ok |-> TRUE, v |-> StrV(<<"hscript">>)]
    ELSE [ok |-> FALSE, v |-> StrV(<<>>)]

\* The copy of one source parameter (the body of the loop).
CopyOneParm(s, src, tgt, p) ==
    LET v == s[src].parms[p]
    IN IF v.k = "folder" THEN Ok(s)
       ELSE IF ~HasParm(s, tgt, p) THEN Ok(s)
       ELSE IF v.keys # <<>> THEN SetKeyframes(s, tgt, p, v.keys)
       ELSE IF v.k = "str" THEN SetParm(s, tgt, p, StrV(v.s))
       ELSE LET r == SetParm(s, tgt, p, Eval(v))
            IN IF r.exc # "TypeError" THEN r
               ELSE IF StartsWith(p, "lpre") \/ StartsWith(p, "lpost")
               THEN IF v.k = "int" /\ ValueMap(v.i).ok
                    THEN SetParm(s, tgt, p, ValueMap(v.i).v)
                    ELSE Raise(s, "IndexError")
               ELSE r

RECURSIVE CopyParmsLoop(_, _, _, _)
CopyParmsLoop(s, src, tgt, ps) ==
    IF ps = <<>> THEN Ok(s)
    ELSE Then(CopyOneParm(s, src, tgt, Head(ps)),
              LAMBDA s1 : CopyParmsLoop(s1, src, tgt, Tail(ps)))

\* source_parms: the source's parameters whose name is not in excludes.
SourceParms(s, src, excludes) ==
    SelectSeq(Parms(s, src), LAMBDA p : ~InExcludes(p, excludes))

CopyParmValues(s, src, tgt, excludes) ==
    CopyParmsLoop(s, src, tgt, SourceParms(s, src, excludes))

\* ------------------------------------------------------ host: connections
\* node.inputConnections(): the connected inputs, in input-index order.
RECURSIVE ConnsFrom(_, _)
ConnsFrom(inputs, i) ==
    IF i \notin DOMAIN inputs THEN <<>>
    ELSE IF inputs[i] = None THEN ConnsFrom(inputs, i + 1)
    ELSE <<[inputIndex |-> i, inputNode |-> inputs[i]]>> \o ConnsFrom(inputs, i + 1)

InputConnections(s, n) == ConnsFrom(s[n].inputs, 0)

\* len(node.inputConnectors()): the number of input connectors of the node.
NumInputConnectors(s, n) == Cardinality(DOMAIN s[n].inputs)

\* node.outputConnections(): one connection per downstream input wired to n.
OutputConnections(s, n) ==
    {[outputNode |-> d, inputIndex |-> i] :
        <<d, i>> \in {<<d, i>> \in (DOMAIN s) \X (0 .. MaxSlots) :
                        i \in DOMAIN s[d].inputs /\ s[d].inputs[i] = n}}

\* node.setInput(index, upstream): the host raises hou.InvalidInput for an
\* index the node has no connector for.
SetInput(s, n, i, m) ==
    IF i \notin DOMAIN s[n].inputs THEN Raise(s, "InvalidInput")
    ELSE Ok([s EXCEPT ![n].inputs[i] = m])

\* ----------------------------------------------------------- _copy_inputs
RECURSIVE CopyInputsLoop(_, _, _)
CopyInputsLoop(s, tgt, conns) ==
    IF conns = <<>> THEN Ok(s)
    ELSE LET r == SetInput(s, tgt, Head(conns).inputIndex, Head(conns).inputNode)
         IN IF r.exc # NoExc THEN r ELSE CopyInputsLoop(r.s, tgt, Tail(conns))

\* Mutant: the guard counts one connection too few before it fails.
CopyInputs_LateGuard(s, src, tgt) ==
    LET conns == InputConnections(s, src)
    IN IF Len(conns) > NumInputConnectors(s, tgt) + 1
       THEN Raise(s, "InvalidInput")
       ELSE CopyInputsLoop(s, tgt, conns)

CopyInputs(s, src, tgt) ==
    LET conns == InputConnections(s, src)
        num_target_inputs == NumInputConnectors(s, tgt)
    IN IF Len(conns) > num_target_inputs
       THEN Raise(s, "InvalidInput")
       ELSE CopyInputsLoop(s, tgt, conns)

\* ---------------------------------------------------------- _move_outputs
RECURSIVE MoveOutputsLoop(_, _, _)
MoveOutputsLoop(s, tgt, conns) ==
    IF conns = {} THEN Ok(s)
    ELSE LET c == CHOOSE c \in conns : TRUE
             r == SetInput(s, c.outputNode, c.inputIndex, tgt)
         IN IF r.exc # NoExc THEN r ELSE MoveOutputsLoop(r.s, tgt, conns \ {c})

\* Mutant: only the connections into input 0 are moved.
MoveOutputs_FirstInputOnly(s, src, tgt) ==
    MoveOutputsLoop(s, tgt, {c \in OutputConnections(s, src) : c.inputIndex = 0})

MoveOutputs(s, src, tgt) == MoveOutputsLoop(s, tgt, OutputConnections(s, src))

\* ----------------------------------------------------------- host: nodes
\* The parameters a new node of a type has.  The toolkit node's digital
\* asset keeps the script-language selectors as integer menus; the native
\* node's are integers or strings, depending on the host version
\* (handler.py 772-778).
KindDefault(kind, str) == IF kind = "int" THEN IntV(0) ELSE StrV(str)

NativeDefaults(e) ==
    (<<"folder0">> :> FolderV)
    @@ (<<"trange">> :> KindDefault(e.otherKind, <<"off">>))
    @@ (<<"lpre", "render">> :> KindDefault(e.scriptKind, <<"hscript">>))
    @@ (<<"lpost", "render">> :> KindDefault(e.scriptKind, <<"hscript">>))
    @@ (<<"ar_picture">> :> StrV(<<>>))
    @@ (<<"ar_ass_file">> :> StrV(<<>>))
    @@ (<<"ar_aovs">> :> IntV(0))

TkDefaults ==
    (<<"sgtk_", "output_profile">> :> IntV(0))
    @@ (<<"sgtk_", "initialized">> :> StrV(<<"False">>))
    @@ (<<"sgtk_", "hip_path">> :> StrV(<<>>))
    @@ (<<"sgtk_", "ass_diskfile">> :> StrV(<<>>))
    @@ (<<"sgtk_", "ar_filename">> :> StrV(<<>>))
    @@ (<<"sgtk_", "ar_picture">> :> StrV(<<>>))
    @@ (<<"folder0">> :> FolderV)
    @@ (<<"trange">> :> IntV(0))
    @@ (<<"lpre", "render">> :> IntV(0))
    @@ (<<"lpost", "render">> :> IntV(0))
    @@ (<<"ar_picture">> :> StrV(<<>>))
    @@ (<<"ar_ass_file">> :> StrV(<<>>))
    @@ (<<"ar_aovs">> :> IntV(0))

DefaultParms(e, type) ==
    IF type = TK_ARNOLD_NODE_TYPE THEN TkDefaults
    ELSE IF type = HOU_ARNOLD_NODE_TYPE THEN NativeDefaults(e)
    ELSE <<>>

NumSlots(e, type) ==
    IF type = HOU_ARNOLD_NODE_TYPE THEN e.nativeSlots ELSE e.tkSlots

\* The id the host gives the next node: the first one not in use.
FreshId(s) == CHOOSE n \in 1 .. (Cardinality(DOMAIN s) + 1) :
                /\ n \notin DOMAIN s
                /\ \A m \in 1 .. (n - 1) : m \in DOMAIN s

\* parent.createNode(type): a node with the type's default parameters, a
\* default name, at the origin, wired to nothing.
CreateNode(s, e, type, id) ==
    (id :> [type |-> type, name |-> <<type, ToString(id)>>, pos |-> <<0, 0>>,
            parms |-> DefaultParms(e, type), locked |-> {}, user |-> <<>>,
            color |-> "default",
            inputs |-> [i \in 0 .. (NumSlots(e, type) - 1) |-> None]])
    @@ s

\* node.destroy(): the node is gone, and so is every wire from it.
Destroy(s, n) ==
    [m \in (DOMAIN s) \ {n} |->
        [s[m] EXCEPT !.inputs = [i \in DOMAIN @ |-> IF @[i] = n THEN None ELSE @[i]]]]

\* node.setUserData(key, value)
SetUserData(s, n, key, value) ==
    [s EXCEPT ![n].user = (key :> value) @@ @]

\* hou.nodeType(category, type).instances(), in creation order.
Instances(s, type) ==
    LET top == IF DOMAIN s = {} THEN 0
               ELSE CHOOSE m \in DOMAIN s : \A k \in DOMAIN s : k <= m
        F[j \in 0 .. top] ==
            IF j = 0 THEN <<>>
            ELSE IF j \in DOMAIN s /\ s[j].type = type THEN Append(F[j - 1], j)
            ELSE F[j - 1]
    IN F[top]

\* _get_extra_plane_numbers(node): range(1, ar_aovs + 1)
GetExtraPlaneNumbers(s, n) ==
    LET count == Eval(s[n].parms[TK_EXTRA_PLANE_COUNT_PARM]).i
    IN [m \in 1 .. count |-> m]

\* list.index(x): the first position holding x, counted from 0; -1 stands
\* for the ValueError raised when there is none.
IndexOf(seq, x) ==
    IF \E j \in DOMAIN seq : seq[j] = x
    THEN (CHOOSE j \in DOMAIN seq : seq[j] = x /\ \A i \in 1 .. (j - 1) : seq[i] # x) - 1
    ELSE -1

\* ------------------------------------------ convert_to_regular_arnold_nodes
\* The loop that stores each plane's label in the new node's user data.
RECURSIVE StorePlanes(_, _, _, _)
StorePlanes(s, tk, a, planes) ==
    IF planes = <<>> THEN Ok(s)
    ELSE LET plane_parm_name == TK_EXTRA_PLANES_NAME(Head(planes))
         IN IF ~HasParm(s, tk, plane_parm_name) THEN Raise(s, "AttributeError")
            ELSE StorePlanes(
                    SetUserData(s, a, plane_parm_name,
                                Eval(s[tk].parms[plane_parm_name]).s),
                    tk, a, Tail(planes))

\* The end of both conversions: the new node takes the name and the
\* position of the original, which is destroyed.
ReplaceNode(s, old, new) ==
    LET name == s[old].name
        pos == s[old].pos
    IN [Destroy(s, old) EXCEPT ![new].name = name, ![new].pos = pos]

\* exclude_parms: the parameters (hou.Parm objects) of the toolkit node
\* whose name starts with "sgtk_".
ExcludeParms(s, tk) ==
    {ParmObject(tk, p) : p \in {q \in DOMAIN s[tk].parms : StartsWith(q, TK_PREFIX)}}

\* The body of the loop for one toolkit node.
ConvertOneToRegular(s, e, tk) ==
    LET a == FreshId(s)
        s0 == CreateNode(s, e, HOU_ARNOLD_NODE_TYPE, a)
        exclude_parms == ExcludeParms(s, tk)
        index == Eval(s[tk].parms[TK_OUTPUT_PROFILE_PARM]).i
    IN Then(CopyParmValues(s0, tk, a, exclude_parms), LAMBDA s1 :
       IF index + 1 \notin DOMAIN e.labels THEN Raise(s1, "IndexError")
       ELSE
       Then(StorePlanes(SetUserData(s1, a, TK_OUTPUT_PROFILE_NAME_KEY,
                                    e.labels[index + 1]),
                        tk, a, GetExtraPlaneNumbers(s1, tk)), LAMBDA s2 :
       Then(CopyInputs(s2, tk, a), LAMBDA s3 :
       Then(MoveOutputs(s3, tk, a), LAMBDA s4 :
       Logged(Ok(ReplaceNode(s4, tk, a)),
              [ev |-> "debug", node |-> a, parm |-> <<"Converted">>])))))

\* Mutant: a failure on one node does not end the loop.
RECURSIVE ToRegularLoop_Continue(_, _, _)
ToRegularLoop_Continue(s, e, nodes) ==
    IF nodes = <<>> THEN Ok(s)
    ELSE LET r == ConvertOneToRegular(s, e, Head(nodes))
             rest == ToRegularLoop_Continue(r.s, e, Tail(nodes))
         IN [s |-> rest.s, log |-> r.log \o rest.log,
             exc |-> IF r.exc # NoExc THEN r.exc ELSE rest.exc]

RECURSIVE ToRegularLoop(_, _, _)
ToRegularLoop(s, e, nodes) ==
    IF nodes = <<>> THEN Ok(s)
    ELSE Then(ConvertOneToRegular(s, e, Head(nodes)),
              LAMBDA s1 : ToRegularLoop(s1, e, Tail(nodes)))

ConvertToRegularArnoldNodes(s, e) ==
    LET tk_arnold_nodes == Instances(s, TK_ARNOLD_NODE_TYPE)
    IN IF tk_arnold_nodes = <<>>
       THEN Logged(Ok(s), [ev |-> "debug", node |-> None, parm |-> <<"No nodes">>])
       ELSE ToRegularLoop(s, e, tk_arnold_nodes)

\* ------------------------------------------ convert_back_to_tk_arnold_nodes
\* The loop that restores each plane's label from the user data.
RECURSIVE RestorePlanes(_, _, _, _)
RestorePlanes(s, user_dict, t, planes) ==
    IF planes = <<>> THEN Ok(s)
    ELSE LET plane_parm_name == TK_EXTRA_PLANES_NAME(Head(planes))
         IN IF plane_parm_name \notin DOMAIN user_dict THEN Raise(s, "TypeError")
            ELSE Then(SetParm(s, t, plane_parm_name, StrV(user_dict[plane_parm_name])),
                      LAMBDA s1 : RestorePlanes(s1, user_dict, t, Tail(planes)))

\* user_dict.get(TK_OUTPUT_PROFILE_NAME_KEY): the empty string also stands
\* for a missing key, both are false in `if not tk_output_profile_name`.
StoredProfileName(user_dict) ==
    IF TK_OUTPUT_PROFILE_NAME_KEY \in DOMAIN user_dict
    THEN user_dict[TK_OUTPUT_PROFILE_NAME_KEY] ELSE <<>>

\* Mutant: the test of the stored profile name is gone.
ConvertOneBack_NoSkip(s, e, an) ==
    LET user_dict == s[an].user
        t == FreshId(s)
        s0 == CreateNode(s, e, TK_ARNOLD_NODE_TYPE, t)
    IN Then(CopyParmValues(s0, an, t, {}), LAMBDA s2 :
       Then(RestorePlanes(s2, user_dict, t, GetExtraPlaneNumbers(s2, an)), LAMBDA s3 :
       Then(CopyInputs(s3, an, t), LAMBDA s4 :
       Then(MoveOutputs(s4, an, t), LAMBDA s5 :
       Ok(ReplaceNode(s5, an, t))))))

\* Mutant: the ValueError of the menu lookup is not caught.
ConvertOneBack_NoCatch(s, e, an) ==
    LET user_dict == s[an].user
        tk_output_profile_name == StoredProfileName(user_dict)
    IN IF tk_output_profile_name = <<>>
       THEN Logged(Ok(s), [ev |-> "warning", node |-> an, parm |-> <<"no profile name">>])
       ELSE
       LET t == FreshId(s)
           s0 == CreateNode(s, e, TK_ARNOLD_NODE_TYPE, t)
           output_profile_index == IndexOf(e.labels, tk_output_profile_name)
       IN IF output_profile_index < 0 THEN Raise(s0, "ValueError")
          ELSE
          Then(SetParm(s0, t, TK_OUTPUT_PROFILE_PARM, IntV(output_profile_index)), LAMBDA s1 :
          Then(CopyParmValues(s1, an, t, {}), LAMBDA s2 :
          Then(RestorePlanes(s2, user_dict, t, GetExtraPlaneNumbers(s2, an)), LAMBDA s3 :
          Then(CopyInputs(s3, an, t), LAMBDA s4 :
          Then(MoveOutputs(s4, an, t), LAMBDA s5 :
          Logged(Ok(ReplaceNode(s5, an, t)),
                 [ev |-> "debug", node |-> t, parm |-> <<"Converted">>]))))))

\* The body of the loop for one native node.
ConvertOneBack(s, e, an) ==
    LET user_dict == s[an].user
        tk_output_profile_name == StoredProfileName(user_dict)
    IN IF tk_output_profile_name = <<>>
       THEN Logged(Ok(s), [ev |-> "warning", node |-> an, parm |-> <<"no profile name">>])
       ELSE
       LET t == FreshId(s)
           s0 == CreateNode(s, e, TK_ARNOLD_NODE_TYPE, t)
           output_profile_index == IndexOf(e.labels, tk_output_profile_name)
           r0 == IF output_profile_index >= 0
                 THEN SetParm(s0, t, TK_OUTPUT_PROFILE_PARM, IntV(output_profile_index))
                 ELSE Logged(Ok(s0), [ev |-> "warning", node |-> an,
                                      parm |-> <<"No output profile found">>])
       IN Then(r0, LAMBDA s1 :
          Then(CopyParmValues(s1, an, t, {}), LAMBDA s2 :
          Then(RestorePlanes(s2, user_dict, t, GetExtraPlaneNumbers(s2, an)), LAMBDA s3 :
          Then(CopyInputs(s3, an, t), LAMBDA s4 :
          Then(MoveOutputs(s4, an, t), LAMBDA s5 :
          Logged(Ok(ReplaceNode(s5, an, t)),
                 [ev |-> "debug", node |-> t, parm |-> <<"Converted">>]))))))

RECURSIVE BackLoop(_, _, _)
BackLoop(s, e, nodes) ==
    IF nodes = <<>> THEN Ok(s)
    ELSE Then(ConvertOneBack(s, e, Head(nodes)),
              LAMBDA s1 : BackLoop(s1, e, Tail(nodes)))

ConvertBackToTkArnoldNodes(s, e) ==
    LET arnold_nodes == Instances(s, HOU_ARNOLD_NODE_TYPE)
    IN IF arnold_nodes = <<>>
       THEN Logged(Ok(s), [ev |-> "debug", node |-> None, parm |-> <<"No nodes">>])
       ELSE BackLoop(s, e, arnold_nodes)

\* ------------------------------------------- configuration and templates
\* A template is a sequence of items: literal text, a path separator, or a
\* key to be filled from the fields.
Lit(v) == [t |-> "lit", v |-> v]
Sep == [t |-> "sep", v |-> ""]
Key(v) == [t |-> "key", v |-> v]

\* app.get_template("work_file_template"): scene files are
\* proj/scenes/<name>_v<version>.hip (the host gives scene paths with
\* forward slashes).
WorkFileTemplate ==
    <<Lit("proj"), Lit("/"), Lit("scenes"), Lit("/"), Key("name"), Lit("_v"),
      Key("version"), Lit(".hip")>>

\* app.get_template_by_name(name)
TemplateByName(name) ==
    IF name = "arnold_ass"
    THEN <<Lit("proj"), Sep, Lit("ass"), Sep, Key("name"), Lit("."), Key("node"),
           Lit("."), Key("SEQ"), Lit(".ass")>>
    ELSE IF name = "arnold_render"
    THEN <<Lit("proj"), Sep, Lit("render"), Sep, Key("name"), Lit("_"),
           Key("renderpass"), Lit("_v"), Key("version"), Lit("."), Key("eye"),
           Lit("."), Key("SEQ"), Lit(".exr")>>
    ELSE IF name = "arnold_aov"
    THEN <<Lit("proj"), Sep, Lit("render"), Sep, Key("aov_name"), Sep, Key("node"),
           Lit("."), Key("SEQ"), Lit(".exr")>>
    ELSE <<Lit("proj"), Sep, Key("Shot"), Sep, Key("node"), Lit(".jpg")>>

\* self._output_profiles[name], as cached by __init__ from the setting
\* "output_profiles".
OutputProfiles(name) ==
    IF name = <<"Jpeg">>
    THEN [name |-> name, settings |-> (<<"trange">> :> IntV(1)),
          output_ifd_template |-> "arnold_ass",
          output_render_template |-> "arnold_shot_render",
          output_extra_plane_template |-> "arnold_aov"]
    ELSE [name |-> name, settings |-> <<>>,
          output_ifd_template |-> "arnold_ass",
          output_render_template |-> "arnold_render",
          output_extra_plane_template |-> "arnold_aov"]

TK_RENDER_TEMPLATE_MAPPING ==
    << <<<<"sgtk_", "ass_diskfile">>, "output_ifd_template">>,
       <<<<"sgtk_", "ar_filename">>, "output_render_template">> >>

TK_DEFAULT_UPDATE_PARM_MAPPING ==
    << <<<<"sgtk_", "ass_diskfile">>, <<"ar_ass_file">>>>,
       <<<<"sgtk_", "ar_picture">>, <<"ar_picture">>>> >>

TK_RESET_PARM_NAMES ==
    << <<"soho_compression">>, <<"soho_mkpath">>, <<"vm_device">>,
       <<"vm_image_exr_compression">>, <<"vm_image_jpeg_quality">>,
       <<"vm_image_tiff_compression">> >>

\* app.context.as_template_fields(template): the context of the session
\* knows the pipeline step and no shot.
ContextFields == ("Step" :> <<"light">>)

\* template.validate(path): every literal of the template is where the path
\* has it, and every key takes one token.
Validate(template, path) ==
    /\ Len(path) = Len(template)
    /\ \A j \in DOMAIN template : template[j].t = "lit" => path[j] = template[j].v

\* template.get_fields(path)
GetFields(template, path) ==
    [k \in {template[j].v : j \in {i \in DOMAIN template : template[i].t = "key"}} |->
        <<path[CHOOSE j \in DOMAIN template : template[j] = Key(k)]>>]

\* template.apply_fields(fields): TankError when a key of the template has
\* no value; the template's separators come out as os.path.sep.
RECURSIVE ApplyFields(_, _, _)
ApplyFields(template, fields, sep) ==
    IF template = <<>> THEN [ok |-> TRUE, path |-> <<>>, missing |-> ""]
    ELSE LET item == Head(template)
             rest == ApplyFields(Tail(template), fields, sep)
         IN IF item.t = "key" /\ item.v \notin DOMAIN fields
            THEN [ok |-> FALSE, path |-> <<>>, missing |-> item.v]
            ELSE IF ~rest.ok THEN rest
            ELSE [ok |-> TRUE, missing |-> "",
                  path |-> (IF item.t = "key" THEN fields[item.v]
                            ELSE IF item.t = "sep" THEN <<sep>>
                            ELSE <<item.v>>) \o rest.path]

\* str.replace(old, new) on a tokenised string.
Replace(str, old, new) == [j \in DOMAIN str |-> IF str[j] = old THEN new ELSE str[j]]

\* --------------------------------------------------- _get_hipfile_fields
GetHipfileFields(e) ==
    IF e.workTemplate /\ Validate(WorkFileTemplate, e.hip)
    THEN GetFields(WorkFileTemplate, e.hip)
    ELSE <<>>

\* ---------------------------------------------------- _get_output_profile
\* The profile, or the exception of an index outside the menu.
GetOutputProfile(s, e, n) ==
    LET index == Eval(s[n].parms[TK_OUTPUT_PROFILE_PARM]).i
    IN IF index + 1 \in DOMAIN e.labels
       THEN [exc |-> NoExc, profile |-> OutputProfiles(e.labels[index + 1])]
       ELSE [exc |-> "IndexError", profile |-> OutputProfiles(<<>>)]

\* --------------------------------------------------- _compute_output_path
NotAWorkFile == <<"This Houdini file is not a Shotgun Toolkit work file!">>

Lookup(what) == [ev |-> "lookup", node |-> None, parm |-> <<what>>]

Raised(exc, msg, log) == [exc |-> exc, path |-> <<>>, msg |-> msg, log |-> log]

\* Mutant: the path separator is not normalised.
ComputeWithFields_NoReplace(s, e, n, template_name, aov_name, work_file_fields) ==
    LET got == GetOutputProfile(s, e, n)
        fields == ContextFields
                  @@ (IF aov_name # <<>> THEN ("aov_name" :> aov_name) ELSE <<>>)
                  @@ ("eye" :> <<"%V">>) @@ ("SEQ" :> <<"$F">>)
                  @@ ("node" :> s[n].name) @@ ("renderpass" :> s[n].name)
                  @@ work_file_fields
        applied == ApplyFields(TemplateByName(got.profile[template_name]), fields, e.sep)
    IN IF ~applied.ok
       THEN Raised("TankError", <<"missing field ", applied.missing>>,
                   <<Lookup("profile"), Lookup("template")>>)
       ELSE [exc |-> NoExc, path |-> applied.path, msg |-> <<>>,
             log |-> <<Lookup("profile"), Lookup("template")>>]

\* What follows the work-file check: the lookups of the profile and of the
\* template, the fields, the application of the template.
ComputeWithFields(s, e, n, template_name, aov_name, work_file_fields) ==
    LET got == GetOutputProfile(s, e, n)
    IN IF got.exc # NoExc THEN Raised(got.exc, <<>>, <<Lookup("profile")>>)
       ELSE
       LET output_template == TemplateByName(got.profile[template_name])
           \* work_file_fields.get(...) gives None for an absent key, and a
           \* None field is a missing field to apply_fields; the fields of
           \* the context override the others (dict.update)
           fields == ContextFields
                     @@ (IF aov_name # <<>> THEN ("aov_name" :> aov_name) ELSE <<>>)
                     @@ ("eye" :> <<"%V">>)
                     @@ ("SEQ" :> <<"$F">>)
                     @@ ("node" :> s[n].name)
                     @@ ("renderpass" :> s[n].name)
                     @@ [k \in (DOMAIN work_file_fields) \cap {"name", "version"} |->
                             work_file_fields[k]]
           applied == ApplyFields(output_template, fields, e.sep)
       IN IF ~applied.ok
          THEN Raised("TankError", <<"missing field ", applied.missing>>,
                      <<Lookup("profile"), Lookup("template")>>)
          ELSE [exc |-> NoExc, path |-> Replace(applied.path, e.sep, "/"),
                msg |-> <<>>,
                log |-> <<Lookup("profile"), Lookup("template")>>]

\* Mutant: the work-file check comes after the lookups.
ComputeOutputPath_LateCheck(s, e, n, template_name, aov_name) ==
    LET work_file_fields == GetHipfileFields(e)
    IN IF work_file_fields = <<>>
       THEN Raised("TankError", NotAWorkFile, <<Lookup("profile"), Lookup("template")>>)
       ELSE ComputeWithFields(s, e, n, template_name, aov_name, work_file_fields)

\* The path, or the exception raised, with the message of a TankError; the
\* log holds the lookups made (profile, template).
ComputeOutputPath(s, e, n, template_name, aov_name) ==
    LET work_file_fields == GetHipfileFields(e)
    IN IF work_file_fields = <<>>
       THEN Raised("TankError", NotAWorkFile, <<>>)
       ELSE ComputeWithFields(s, e, n, template_name, aov_name, work_file_fields)

\* ------------------------------------------------------- _compute_and_set
\* Mutant: the TankError is not caught.
ComputeAndSet_NoCatch(s, e, n, parm_name, template_name, aov_name) ==
    LET got == ComputeOutputPath(s, e, n, template_name, aov_name)
    IN IF got.exc # NoExc THEN [s |-> s, exc |-> got.exc, log |-> got.log]
       ELSE
       Then(LockParm(s, n, parm_name, FALSE), LAMBDA s1 :
       Then(SetParm(s1, n, parm_name, StrV(got.path)), LAMBDA s2 :
       LockParm(s2, n, parm_name, TRUE)))

ComputeAndSet(s, e, n, parm_name, template_name, aov_name) ==
    LET got == ComputeOutputPath(s, e, n, template_name, aov_name)
        path == IF got.exc = "TankError" THEN <<"ERROR: ">> \o got.msg ELSE got.path
    IN IF got.exc \notin {NoExc, "TankError"}
       THEN [s |-> s, exc |-> got.exc, log |-> got.log]
       ELSE
       Then([s |-> s, exc |-> NoExc, log |-> got.log], LAMBDA s0 :
       Then(LockParm(s0, n, parm_name, FALSE), LAMBDA s1 :
       Then(SetParm(s1, n, parm_name, StrV(path)), LAMBDA s2 :
       LockParm(s2, n, parm_name, TRUE))))

\* ----------------------------------------------------------- update_parms
\* Mutant: the evaluated string is copied.
CopyParm_Evaluated(s, n, p1, p2) ==
    IF ~HasParm(s, n, p1) THEN Raise(s, "AttributeError")
    ELSE SetParm(s, n, p2, Eval(s[n].parms[p1]))

\* copy_parm(p1, p2): node.parm(p2).set(node.parm(p1).unexpandedString())
CopyParm(s, n, p1, p2) ==
    IF ~HasParm(s, n, p1) THEN Raise(s, "AttributeError")
    ELSE SetParm(s, n, p2, StrV(s[n].parms[p1].s))

RECURSIVE UpdateDefaultParms(_, _, _)
UpdateDefaultParms(s, n, pairs) ==
    IF pairs = <<>> THEN Ok(s)
    ELSE Then(CopyParm(s, n, Head(pairs)[1], Head(pairs)[2]),
              LAMBDA s1 : UpdateDefaultParms(s1, n, Tail(pairs)))

RECURSIVE UpdatePlaneParms(_, _, _)
UpdatePlaneParms(s, n, planes) ==
    IF planes = <<>> THEN Ok(s)
    ELSE Then(CopyParm(s, n,
                       <<"sgtk_", "ar_aov_separate_file", ToString(Head(planes))>>,
                       <<"ar_aov_separate_file", ToString(Head(planes))>>),
              LAMBDA s1 : UpdatePlaneParms(s1, n, Tail(planes)))

UpdateParms(s, n) ==
    Then(UpdateDefaultParms(s, n, TK_DEFAULT_UPDATE_PARM_MAPPING),
         LAMBDA s1 : UpdatePlaneParms(s1, n, GetExtraPlaneNumbers(s1, n)))

\* ------------------------------------------------------ reset_render_path
RECURSIVE ResetTemplates(_, _, _, _)
ResetTemplates(s, e, n, pairs) ==
    IF pairs = <<>> THEN Ok(s)
    ELSE Then(ComputeAndSet(s, e, n, Head(pairs)[1], Head(pairs)[2], <<>>),
              LAMBDA s1 : ResetTemplates(s1, e, n, Tail(pairs)))

\* The loop over the extra image planes.
RECURSIVE ResetPlanes(_, _, _, _)
ResetPlanes(s, e, n, planes) ==
    IF planes = <<>> THEN Ok(s)
    ELSE LET plane_number == Head(planes)
             usefile == <<"ar_aov_separate", ToString(plane_number)>>
         IN IF ~HasParm(s, n, usefile) THEN Raise(s, "AttributeError")
            ELSE IF Eval(s[n].parms[usefile]).i = 0
            THEN ResetPlanes(s, e, n, Tail(planes))
            ELSE Then(ComputeAndSet(
                        s, e, n,
                        <<"sgtk_", "ar_aov_separate_file", ToString(plane_number)>>,
                        "output_extra_plane_template",
                        Eval(s[n].parms[TK_EXTRA_PLANES_NAME(plane_number)]).s),
                      LAMBDA s1 : ResetPlanes(s1, e, n, Tail(planes)))

Enter(n) == [ev |-> "reset_enter", node |-> n, parm |-> <<>>]
Return(n) == [ev |-> "reset_return", node |-> n, parm |-> <<>>]

\* The body after the duplication guard.
ResetRenderPathBody(s, e, n) ==
    Then(ResetTemplates(s, e, n, TK_RENDER_TEMPLATE_MAPPING), LAMBDA s1 :
    Then(ResetPlanes(s1, e, n, GetExtraPlaneNumbers(s1, n)), LAMBDA s2 :
    Then(SetParm(s2, n, <<"sgtk_", "ar_picture">>,
                 StrV(s2[n].parms[NODE_OUTPUT_PATH_PARM].s)), LAMBDA s3 :
    Then(SetParm(s3, n, <<"ar_picture">>,
                 StrV(s2[n].parms[NODE_OUTPUT_PATH_PARM].s)), LAMBDA s4 :
    UpdateParms(s4, n)))))

\* Mutant: the duplication guard is gone.
ResetRenderPath_NoGuard(s, e, n) ==
    Then(Logged(Ok(s), Enter(n)), LAMBDA s0 :
    Then(ResetRenderPathBody(s0, e, n), LAMBDA s1 : Logged(Ok(s1), Return(n))))

\* The log brackets what reset_render_path did between its entry and its
\* return.
ResetRenderPath(s, e, n) ==
    Then(Logged(Ok(s), Enter(n)), LAMBDA s0 :
    IF StartsWith(s0[n].name, "original0") THEN Logged(Ok(s0), Return(n))
    ELSE Then(ResetRenderPathBody(s0, e, n), LAMBDA s1 : Logged(Ok(s1), Return(n))))

\* ---------------------------------------------------- get_output_path_menu
\* node.parm(is_first_run) is node.parm(True): the host takes a parameter
\* path, a string, and raises TypeError for a bool.
GetOutputPathMenu(s, e, n) ==
    LET is_first_run == Eval(s[n].parms[TK_INIT_PARM_NAME]).s = <<"True">>
        r0 == IF is_first_run THEN Raise(s, "TypeError") ELSE Ok(s)
        hip_path_changed == e.hip # Eval(s[n].parms[TK_HIP_PATH_PARM_NAME]).s
    IN Then(r0, LAMBDA s1 :
       IF is_first_run \/ hip_path_changed
       THEN Then(ResetRenderPath(s1, e, n), LAMBDA s2 :
                 SetParm(s2, n, TK_HIP_PATH_PARM_NAME, StrV(e.hip)))
       ELSE Ok(s1))

\* ------------------------------------------------------------ set_profile
\* parm.revertToDefaults() for the reset parameters the node has.
RECURSIVE RevertToDefaults(_, _, _)
RevertToDefaults(s, n, names) ==
    IF names = <<>> THEN s
    ELSE RevertToDefaults(
            IF HasParm(s, n, Head(names))
            THEN [s EXCEPT ![n].parms[Head(names)] = TkDefaults[Head(names)]]
            ELSE s,
            n, Tail(names))

\* node.setParms(settings)
RECURSIVE SetParms(_, _, _, _)
SetParms(s, n, settings, names) ==
    IF names = {} THEN Ok(s)
    ELSE LET p == CHOOSE p \in names : TRUE
         IN Then(SetParm(s, n, p, settings[p]),
                 LAMBDA s1 : SetParms(s1, n, settings, names \ {p}))

SetProfile(s, e, n, reset) ==
    LET got == GetOutputProfile(s, e, n)
    IN IF got.exc # NoExc THEN Raise(s, got.exc)
       ELSE
       LET s1 == IF reset
                 THEN [RevertToDefaults(s, n, TK_RESET_PARM_NAMES) EXCEPT ![n].color = "grey"]
                 ELSE s
           settings == got.profile.settings
       IN Then(IF settings # <<>> THEN SetParms(s1, n, settings, DOMAIN settings)
               ELSE Ok(s1),
               LAMBDA s2 : ResetRenderPath(s2, e, n))

\* ---------------------------------------------------------- use_file_plane
\* Mutant: the "Disabled" text is written and the parameter is not locked
\* again.
UseFilePlane_NoLock(s, e, n, plane_number) ==
    LET path_parm == <<"sgtk_", "ar_aov_separate_file", ToString(plane_number)>>
    IN IF Eval(s[n].parms[<<"ar_aov_separate", ToString(plane_number)>>]).i # 0
       THEN ResetRenderPath(s, e, n)
       ELSE Then(LockParm(s, n, path_parm, FALSE), LAMBDA s1 :
                 SetParm(s1, n, path_parm, StrV(<<"Disabled">>)))

\* re.findall(r'\d+', parm.name())[-1]: the plane number in the name of the
\* checkbox parameter.
UseFilePlane(s, e, n, plane_number) ==
    LET path_parm == <<"sgtk_", "ar_aov_separate_file", ToString(plane_number)>>
    IN IF Eval(s[n].parms[<<"ar_aov_separate", ToString(plane_number)>>]).i # 0
       THEN ResetRenderPath(s, e, n)
       ELSE Then(LockParm(s, n, path_parm, FALSE), LAMBDA s1 :
            Then(SetParm(s1, n, path_parm, StrV(<<"Disabled">>)), LAMBDA s2 :
            LockParm(s2, n, path_parm, TRUE)))

\* ------------------------------------------------------ _get_rendered_files
\* template.validate(path) for an output template: literals where the path
\* has them, a separator where the template has one, one token per key.
ValidateOutput(template, path) ==
    /\ Len(path) = Len(template)
    /\ \A j \in DOMAIN template :
          /\ template[j].t = "lit" => path[j] = template[j].v
          /\ template[j].t = "sep" => path[j] \in {"/", "\\"}

Event(ev, text) == [ev |-> ev, node |-> None, parm |-> text]

\* The files on disk the template engine finds for the node's render path
\* (tank.paths_from_template), none when the path is not one of the render
\* template's.
GetRenderedFiles(s, e, n) ==
    LET file_name == s[n].parms[NODE_OUTPUT_PATH_PARM].s
        got == GetOutputProfile(s, e, n)
    IN IF got.exc # NoExc THEN [exc |-> got.exc, files |-> <<>>, log |-> <<>>]
       ELSE IF ~ValidateOutput(TemplateByName(got.profile.output_render_template), file_name)
       THEN [exc |-> NoExc, files |-> <<>>,
             log |-> <<Event("log_error", <<"Unable to validate files on disk">>)>>]
       ELSE [exc |-> NoExc, files |-> e.files, log |-> <<>>]

\* ------------------------------------------------------------- show_in_fs
\* os.path.dirname(path): what comes before the last separator.
Dirname(path, sep) ==
    LET at == {j \in DOMAIN path : path[j] = sep}
    IN IF at = {} THEN <<>>
       ELSE SubSeq(path, 1, (CHOOSE j \in at : \A k \in at : k <= j) - 1)

SupportedPlatforms == {"linux2", "darwin", "win32"}

\* The branch on sys.platform and what follows it: on a platform that is
\* none of the three, cmd is never bound, and the statement that formats it
\* raises UnboundLocalError.
LaunchBrowser(s, e, render_dir) ==
    IF e.platform \in SupportedPlatforms
    THEN LET cmd == <<IF e.platform = "linux2" THEN "xdg-open "
                      ELSE IF e.platform = "darwin" THEN "open "
                      ELSE "cmd.exe /C start ">> \o render_dir
         IN [s |-> s, exc |-> NoExc,
             log |-> <<Event("log_debug", cmd), Event("system", cmd)>>
                     \o (IF e.exit_code # 0
                         THEN <<Event("displayMessage", <<"Failed to launch ">> \o cmd)>>
                         ELSE <<>>)]
    ELSE [s |-> s, exc |-> "UnboundLocalError",
          log |-> <<Event("log_error", <<"Platform is not supported.">>),
                    Event("displayMessage", <<"Platform is not supported.">>)>>]

ShowInFs(s, e, n) ==
    LET cached == s[n].parms[NODE_OUTPUT_PATH_PARM].s
        render_path == Replace(cached, "/", e.sep)
        dir_name == Dirname(render_path, e.sep)
        found == cached # <<>> /\ dir_name \in e.dirs
    IN IF found THEN LaunchBrowser(s, e, dir_name)
       ELSE
       LET got == GetRenderedFiles(s, e, n)
       IN IF got.exc # NoExc THEN [s |-> s, exc |-> got.exc, log |-> got.log]
          ELSE IF got.files = <<>>
          THEN [s |-> s, exc |-> NoExc,
                log |-> got.log \o <<Event("log_error", <<"Unable to find rendered files">>),
                                     Event("displayMessage", <<"Unable to find rendered files">>)>>]
          ELSE LET render_dir == Dirname(got.files[1], e.sep)
               IN IF render_dir = <<>> THEN [s |-> s, exc |-> NoExc, log |-> got.log]
                  ELSE Then([s |-> s, exc |-> NoExc, log |-> got.log],
                            LAMBDA s1 : LaunchBrowser(s1, e, render_dir))

\* ------------------------------------------------------------ graph scenes
\* A plain node with the given inputs, for the connection utilities.
GraphNode(n, inputs) ==
    [type |-> "null", name |-> <<"n", ToString(n)>>, pos |-> <<n, 0>>,
     parms |-> <<>>, locked |-> {}, user |-> <<>>, color |-> "default",
     inputs |-> inputs]

\* The input wirings a node n may start with: any number of connectors up to
\* MaxSlots, each free or wired to a node created before n (the graph is
\* acyclic, as the host keeps it).
Wirings(n) ==
    UNION {[0 .. (k - 1) -> {None} \cup (1 .. (n - 1))] : k \in 0 .. MaxSlots}

NumConns(s) ==
    Cardinality({<<d, i>> \in (DOMAIN s) \X (0 .. MaxSlots) :
                    i \in DOMAIN s[d].inputs /\ s[d].inputs[i] # None})

WiringConns(w) == Cardinality({i \in DOMAIN w : w[i] # None})

RECURSIVE ScenesUpTo(_)
ScenesUpTo(n) ==
    IF n = 0 THEN {<<>>}
    ELSE {Append(s, GraphNode(n, w)) :
            <<s, w>> \in {<<s, w>> \in ScenesUpTo(n - 1) \X Wirings(n) :
                            NumConns(s) + WiringConns(w) <= MaxConns}}

\* Three nodes: enough for an upstream node, the source and the target of a
\* copy, and for a source, a target and a downstream node of a move.
GraphNodeIds == {1, 2, 3}

GraphScenes == ScenesUpTo(Cardinality(GraphNodeIds))

\* The session outside the node graph: the scene file, the platform's path
\* separator, the configuration (work-file template, profile names, which
\* are the labels of the profile menu) and the host's node type definitions.
DefaultEnv ==
    [hip |-> <<"untitled.hip">>, sep |-> "/", workTemplate |-> TRUE,
     labels |-> << <<"Exr">>, <<"Jpeg">> >>,
     scriptKind |-> "int", otherKind |-> "int",
     nativeSlots |-> TkSlots, tkSlots |-> TkSlots,
     platform |-> "linux2", dirs |-> {}, files |-> <<>>, exit_code |-> 0]

\* What the last operation was, on what, from which scene, and how it ended;
\* origin is the scene before the toolkit-to-native conversion that a
\* native-to-toolkit conversion follows, ret what the operation returned.
Did(op, src, tgt, r, origin) ==
    [op |-> op, src |-> src, tgt |-> tgt, pre |-> scene, exc |-> r.exc,
     log |-> r.log, origin |-> origin, ret |-> <<>>]

NoOp == [op |-> "init", src |-> None, tgt |-> None, pre |-> <<>>, exc |-> NoExc,
         log |-> <<>>, origin |-> <<>>, ret |-> <<>>]

InitGraph ==
    /\ scene \in GraphScenes
    /\ env = DefaultEnv
    /\ last = NoOp

DoCopyInputs(src, tgt) ==
    /\ last.op = "init"
    /\ src # tgt
    /\ LET r == CopyInputs(scene, src, tgt)
       IN /\ scene' = r.s
          /\ last' = Did("copy_inputs", src, tgt, r, <<>>)
    /\ UNCHANGED env

\* _move_outputs is called with a target that was just created and wired by
\* _copy_inputs (handler.py 151-152, 216-217): never the source itself and
\* never a node fed by the source.
DoMoveOutputs(src, tgt) ==
    /\ last.op = "init"
    /\ src # tgt
    /\ \A c \in OutputConnections(scene, src) : c.outputNode # tgt
    /\ LET r == MoveOutputs(scene, src, tgt)
       IN /\ scene' = r.s
          /\ last' = Did("move_outputs", src, tgt, r, <<>>)
    /\ UNCHANGED env

NextGraph ==
    \/ \E src, tgt \in DOMAIN scene : DoCopyInputs(src, tgt)
    \/ \E src, tgt \in DOMAIN scene : DoMoveOutputs(src, tgt)

SpecGraph == InitGraph /\ [][NextGraph]_vars

\* ------------------------------------------------------ conversion scenes
\* A toolkit node as a session can hold it: the defaults of its type, the
\* plane instances of its plane count, and the values the user gave it.
MakeTk(e, id, name, over, aovs, label, inputs) ==
    LET base == CreateNode(<<>>, e, TK_ARNOLD_NODE_TYPE, id)[id]
        sized == Resize([base EXCEPT !.parms[TK_EXTRA_PLANE_COUNT_PARM] = IntV(aovs)], aovs)
        labels == [p \in {TK_EXTRA_PLANES_NAME(m) : m \in 1 .. aovs} |-> StrV(label)]
    IN [sized EXCEPT !.name = name, !.pos = <<id, id>>,
                     !.parms = over @@ labels @@ @,
                     !.inputs = inputs @@ @]

\* A native node that was never a toolkit node, or whose stored profile name
\* is empty.
MakeNative(e, id, user, inputs) ==
    LET base == CreateNode(<<>>, e, HOU_ARNOLD_NODE_TYPE, id)[id]
    IN [base EXCEPT !.name = <<"arnold", ToString(id)>>, !.pos = <<id, id>>,
                    !.user = user, !.inputs = inputs @@ @]

PlainNode(id, inputs) ==
    [type |-> "null", name |-> <<"null", ToString(id)>>, pos |-> <<id, 0>>,
     parms |-> <<>>, locked |-> {}, user |-> <<>>, color |-> "default",
     inputs |-> inputs]

\* The values a user may have given a toolkit node's parameters.
TkOverrides ==
    {(TK_OUTPUT_PROFILE_PARM :> IntV(prof)) @@ (<<"lpre", "render">> :> IntV(lang))
        @@ (<<"trange">> :> tr) @@ (<<"ar_picture">> :> StrV(<<"img.", "$F", ".exr">>)) :
        <<prof, lang, tr>> \in (0 .. 1) \X (0 .. 1)
            \X {IntV(0), [IntV(1) EXCEPT !.keys = <<[frame |-> 1, v |-> 1]>>]}}

LabelConfigs == {<< <<"Exr">>, <<"Jpeg">> >>, << <<"Jpeg">>, <<"Png">> >>}

ConvertEnvs ==
    {[DefaultEnv EXCEPT !.scriptKind = sk, !.nativeSlots = ns] :
        <<sk, ns>> \in {"int", "str"} \X {TkSlots - 1, TkSlots}}

\* Node 1 feeds the toolkit node 2, through one input or two; node 3 is a
\* second render node (a toolkit node with one input or two in use, or a
\* native node without a usable stored profile name);
\* node 4 is downstream of both.
ConvertScenes(e) ==
    {(1 :> PlainNode(1, <<>>))
     @@ (2 :> MakeTk(e, 2, <<"arnold_out">>, over, aovs, label, up))
     @@ (3 :> second)
     @@ (4 :> PlainNode(4, (0 :> 2) @@ (1 :> 3))) :
        <<over, aovs, label, up, second>> \in
            TkOverrides \X (0 .. MaxPlanes) \X {<<"beauty">>}
            \X {(0 :> 1), (0 :> 1) @@ (1 :> 1)}
            \X {MakeTk(e, 3, <<"arnold_z">>, (<<"trange">> :> IntV(2)), MaxPlanes, <<"Z">>, (0 :> 2)),
                MakeTk(e, 3, <<"arnold_z">>, (<<"trange">> :> IntV(2)), MaxPlanes, <<"Z">>,
                       (0 :> 2) @@ (1 :> 1)),
                MakeNative(e, 3, <<>>, (0 :> 2)),
                MakeNative(e, 3, (TK_OUTPUT_PROFILE_NAME_KEY :> <<>>), (0 :> None))}}

InitConvert ==
    /\ env \in ConvertEnvs
    /\ scene \in ConvertScenes(env)
    /\ last = NoOp

DoConvertToRegular ==
    /\ Cardinality(DOMAIN scene) <= MaxSceneNodes
    /\ LET r == ConvertToRegularArnoldNodes(scene, env)
       IN /\ scene' = r.s
          /\ last' = Did("convert_to_regular", None, None, r,
                         IF r.exc = NoExc THEN scene ELSE <<>>)
    /\ UNCHANGED env

DoConvertBack ==
    /\ Cardinality(DOMAIN scene) <= MaxSceneNodes
    /\ LET r == ConvertBackToTkArnoldNodes(scene, env)
       IN /\ scene' = r.s
          /\ last' = Did("convert_back", None, None, r,
                         IF last.op \in {"convert_to_regular", "config"}
                         THEN last.origin ELSE <<>>)
    /\ UNCHANGED env

\* The configured output profiles change between two sessions.
ChangeProfiles(labels) ==
    /\ labels # env.labels
    /\ env' = [env EXCEPT !.labels = labels]
    /\ last' = [NoOp EXCEPT !.op = "config",
                            !.origin = IF last.op \in {"convert_to_regular", "config"}
                                       THEN last.origin ELSE <<>>]
    /\ UNCHANGED scene

NextConvert ==
    \/ DoConvertToRegular
    \/ DoConvertBack
    \/ \E labels \in LabelConfigs : ChangeProfiles(labels)

SpecConvert == InitConvert /\ [][NextConvert]_vars

\* ------------------------------------------------------- parameter copies
\* _copy_parm_values between a toolkit node and a native node, in either
\* direction, on a host whose native node holds the script-language
\* selectors, and one further menu, as integers or as strings.
CopyEnvs ==
    {[DefaultEnv EXCEPT !.scriptKind = sk, !.otherKind = ok] :
        <<sk, ok>> \in {"int", "str"} \X {"int", "str"}}

CopyScenes(e) ==
    {(1 :> MakeTk(e, 1, <<"arnold_out">>, over, aovs, <<"beauty">>, <<>>))
     @@ (2 :> MakeNative(e, 2, <<>>, <<>>)) :
        <<over, aovs>> \in TkOverrides \X (0 .. MaxPlanes)}

InitCopy ==
    /\ env \in CopyEnvs
    /\ scene \in CopyScenes(env)
    /\ last = NoOp

DoCopyParmValues(src, tgt) ==
    /\ last.op = "init"
    /\ src # tgt
    /\ LET r == CopyParmValues(scene, src, tgt, {})
       IN /\ scene' = r.s
          /\ last' = Did("copy_parm_values", src, tgt, r, <<>>)
    /\ UNCHANGED env

NextCopy == \E src, tgt \in DOMAIN scene : DoCopyParmValues(src, tgt)

SpecCopy == InitCopy /\ [][NextCopy]_vars

\* ------------------------------------------------------------ render paths
\* Scene files: two versions of a managed work file, and a file outside the
\* project.
HipFiles ==
    {<<"proj", "/", "scenes", "/", "shotA", "_v", "001", ".hip">>,
     <<"proj", "/", "scenes", "/", "shotA", "_v", "002", ".hip">>,
     <<"untitled.hip">>}

CachedHip == <<"proj", "/", "scenes", "/", "shotA", "_v", "001", ".hip">>

\* The host platform's os.path.sep, and whether a work-file template is
\* configured.
PathEnvs ==
    {[DefaultEnv EXCEPT !.hip = h, !.sep = sp] : <<h, sp>> \in HipFiles \X {"/", "\\"}}
    \cup {[DefaultEnv EXCEPT !.hip = CachedHip, !.workTemplate = FALSE]}

\* Plane count, the label of the planes, and which planes go to a file of
\* their own.
PlaneSetups ==
    {<<0, <<"beauty">>, <<>>>>}
    \cup {<<aovs, label, (CHOOSE f \in [1 .. aovs -> 0 .. 1] : \A m \in 1 .. aovs : f[m] = 0)>> :
            <<aovs, label>> \in (1 .. MaxPlanes) \X {<<"beauty">>}}
    \cup {<<aovs, label, [m \in 1 .. aovs |-> IF m <= on THEN 1 ELSE 0]>> :
            <<aovs, label, on>> \in (1 .. MaxPlanes) \X {<<"beauty">>, <<>>, <<"dir", "\\", "Z">>}
                                    \X (1 .. MaxPlanes)}

\* A toolkit node as the user left it: a copy in progress carries the
\* host's "original0" prefix.
PathNodes(e) ==
    {MakeTk(e, 1, name,
            (TK_OUTPUT_PROFILE_PARM :> IntV(prof))
            @@ (TK_INIT_PARM_NAME :> StrV(<<init>>))
            @@ (TK_HIP_PATH_PARM_NAME :> StrV(cached))
            @@ [p \in {<<"ar_aov_separate", ToString(m)>> : m \in 1 .. setup[1]} |->
                    IntV(setup[3][CHOOSE m \in 1 .. setup[1] :
                                    p = <<"ar_aov_separate", ToString(m)>>])],
            setup[1], setup[2], <<>>) :
        <<name, prof, init, cached, setup>> \in
            {<<"arnold_out">>, <<"original0", "_arnold_out">>} \X (0 .. 1)
            \X {"True", "False"} \X {<<>>, CachedHip} \X PlaneSetups}

\* The node is new, or its render paths were computed before.
InitPath ==
    /\ env \in PathEnvs
    /\ \E node \in PathNodes(env) :
          scene \in {(1 :> node), ResetRenderPath((1 :> node), env, 1).s}
    /\ last = NoOp

IsTk(n) == scene[n].type = TK_ARNOLD_NODE_TYPE

DoResetRenderPath(n) ==
    /\ last.op = "init"
    /\ IsTk(n)
    /\ LET r == ResetRenderPath(scene, env, n)
       IN /\ scene' = r.s
          /\ last' = Did("reset_render_path", n, None, r, <<>>)
    /\ UNCHANGED env

\* The menu script of the output path parameter; the host runs it whenever
\* it draws the menu, so a query may follow a query.
DoGetOutputPathMenu(n) ==
    /\ \/ last.op = "init"
       \/ last.op = "get_output_path_menu" /\ last.tgt = None
    /\ IsTk(n)
    /\ LET r == GetOutputPathMenu(scene, env, n)
       IN /\ scene' = r.s
          /\ last' = Did("get_output_path_menu", n,
                         IF last.op = "init" THEN None ELSE n, r, <<>>)
    /\ UNCHANGED env

DoSetProfile(n, reset) ==
    /\ last.op = "init"
    /\ IsTk(n)
    /\ LET r == SetProfile(scene, env, n, reset)
       IN /\ scene' = r.s
          /\ last' = Did("set_profile", n, None, r, <<>>)
    /\ UNCHANGED env

\* The user flips the "Different File" checkbox of a plane, and the host
\* runs the checkbox's callback.
DoUseFilePlane(n, plane_number) ==
    /\ last.op = "init"
    /\ IsTk(n)
    /\ plane_number \in DOMAIN GetExtraPlaneNumbers(scene, n)
    /\ LET box == <<"ar_aov_separate", ToString(plane_number)>>
           flipped == [scene EXCEPT ![n].parms[box] = IntV(1 - @.i)]
           r == UseFilePlane(flipped, env, n, plane_number)
       IN /\ scene' = r.s
          /\ last' = [Did("use_file_plane", n, None, r, <<>>) EXCEPT !.pre = flipped]
    /\ UNCHANGED env

OutputTemplateNames ==
    {"output_ifd_template", "output_render_template", "output_extra_plane_template"}

\* The labels of the node's planes, and no label.
AovNames(n) ==
    {<<>>} \cup {Eval(scene[n].parms[TK_EXTRA_PLANES_NAME(m)]).s :
                    m \in DOMAIN GetExtraPlaneNumbers(scene, n)}

DoComputeOutputPath(n, template_name, aov_name) ==
    /\ last.op = "init"
    /\ IsTk(n)
    /\ LET got == ComputeOutputPath(scene, env, n, template_name, aov_name)
       IN last' = [Did("compute_output_path", n, None, got, <<>>) EXCEPT
                     !.ret = [path |-> got.path, msg |-> got.msg,
                              template_name |-> template_name, aov_name |-> aov_name]]
    /\ UNCHANGED <<scene, env>>

NextPath ==
    \/ \E n \in DOMAIN scene : DoResetRenderPath(n)
    \/ \E n \in DOMAIN scene : DoGetOutputPathMenu(n)
    \/ \E n \in DOMAIN scene, reset \in BOOLEAN : DoSetProfile(n, reset)
    \/ \E n \in DOMAIN scene, plane_number \in 1 .. MaxPlanes : DoUseFilePlane(n, plane_number)
    \/ \E n \in DOMAIN scene, template_name \in OutputTemplateNames :
          \E aov_name \in AovNames(n) : DoComputeOutputPath(n, template_name, aov_name)

SpecPath == InitPath /\ [][NextPath]_vars

\* ------------------------------------------------------------ file browser
\* sys.platform: the three values the handler knows, and the value a
\* Python 3 interpreter reports on Linux.
Platforms == SupportedPlatforms \cup {"linux"}

\* The render directory of the project, with either separator.
RenderDirs == {<<"proj", sp, "render">> : sp \in {"/", "\\"}}

\* The platform, whether the render directory exists, the frames on disk,
\* and the exit code the shell will give.
ShowEnvs ==
    {[e EXCEPT !.platform = pf, !.dirs = ds, !.exit_code = ec,
               !.files = IF onDisk THEN << <<"proj", e.sep, "render", e.sep, "f.1.exr">> >>
                         ELSE <<>>] :
        <<e, pf, ds, ec, onDisk>> \in
            PathEnvs \X Platforms \X {{}, RenderDirs} \X (0 .. 1) \X BOOLEAN}

\* A node whose render paths are blank or were computed.
ShowScenes(e) ==
    UNION {{(1 :> node), ResetRenderPath((1 :> node), e, 1).s} :
            node \in {MakeTk(e, 1, <<"arnold_out">>,
                             (TK_OUTPUT_PROFILE_PARM :> IntV(prof)), 0, <<>>, <<>>) :
                        prof \in 0 .. 1}}

InitShow ==
    /\ env \in ShowEnvs
    /\ scene \in ShowScenes(env)
    /\ last = NoOp

DoShowInFs(n) ==
    /\ last.op = "init"
    /\ IsTk(n)
    /\ LET r == ShowInFs(scene, env, n)
       IN /\ scene' = r.s
          /\ last' = Did("show_in_fs", n, None, r, <<>>)
    /\ UNCHANGED env

NextShow == \E n \in DOMAIN scene : DoShowInFs(n)

SpecShow == InitShow /\ [][NextShow]_vars

\* ------------------------------------------------------------------ claims

\* C1: a toolkit node converted to a native node and back is a toolkit node
\* again with the same name, the same position, the same value of every
\* parameter whose name does not start with "sgtk_", the same label of
\* every plane 1..ar_aovs and, when the stored profile name is among the
\* profile menu's labels, the same selected profile.
NodeNamed(s, name) == CHOOSE m \in DOMAIN s : s[m].name = name

SameAfterRoundTrip(o, c, stored) ==
    /\ c.type = TK_ARNOLD_NODE_TYPE
    /\ c.pos = o.pos
    /\ \A p \in DOMAIN o.parms :
        ~StartsWith(p, TK_PREFIX) => p \in DOMAIN c.parms /\ c.parms[p] = o.parms[p]
    /\ \A m \in 1 .. o.parms[TK_EXTRA_PLANE_COUNT_PARM].i :
        /\ TK_EXTRA_PLANES_NAME(m) \in DOMAIN c.parms
        /\ c.parms[TK_EXTRA_PLANES_NAME(m)].s = o.parms[TK_EXTRA_PLANES_NAME(m)].s
    /\ (\E j \in DOMAIN env.labels : env.labels[j] = stored)
        => env.labels[c.parms[TK_OUTPUT_PROFILE_PARM].i + 1] = stored

RoundTripDone == last.op = "convert_back" /\ last.origin # <<>>

C1_RoundTrip ==
    RoundTripDone =>
        \A n \in DOMAIN last.origin :
            last.origin[n].type = TK_ARNOLD_NODE_TYPE =>
                /\ \E m \in DOMAIN scene : scene[m].name = last.origin[n].name
                /\ SameAfterRoundTrip(
                        last.origin[n],
                        scene[NodeNamed(scene, last.origin[n].name)],
                        StoredProfileName(
                            last.pre[NodeNamed(last.pre, last.origin[n].name)].user))

\* C2: when the source has strictly more input connections than the target
\* has input connectors, _copy_inputs raises hou.InvalidInput and the whole
\* scene (every node's inputs, hence every node's outputs) is as it was.
C2_NoPartialCopy ==
    (/\ last.op = "copy_inputs"
     /\ Len(InputConnections(last.pre, last.src))
            > NumInputConnectors(last.pre, last.tgt))
    => (last.exc = "InvalidInput" /\ scene = last.pre)

\* The spec's example: 3 connections onto a target with 2 connectors.
C2_Witness ==
    /\ last.op = "copy_inputs"
    /\ Len(InputConnections(last.pre, last.src)) = 3
    /\ NumInputConnectors(last.pre, last.tgt) = 2
    /\ last.exc = "InvalidInput"

\* C3: after _move_outputs(A, B) every input that was wired to A is wired
\* to B at the same index, every other input is unchanged, and A has no
\* output connection left.
C3_OutputsMoved ==
    (last.op = "move_outputs") =>
        /\ last.exc = NoExc
        /\ DOMAIN scene = DOMAIN last.pre
        /\ \A d \in DOMAIN last.pre :
            /\ DOMAIN scene[d].inputs = DOMAIN last.pre[d].inputs
            /\ \A i \in DOMAIN last.pre[d].inputs :
                scene[d].inputs[i] =
                    IF last.pre[d].inputs[i] = last.src THEN last.tgt
                    ELSE last.pre[d].inputs[i]
        /\ OutputConnections(scene, last.src) = {}

\* A has two output connections, one of them into an input other than 0, and
\* the downstream node has a further input that is not wired to A.
C3_Witness ==
    /\ last.op = "move_outputs"
    /\ last.exc = NoExc
    /\ \E d \in DOMAIN last.pre : \E i, j, k \in DOMAIN last.pre[d].inputs :
        /\ i # j /\ j > 0
        /\ last.pre[d].inputs[i] = last.src /\ last.pre[d].inputs[j] = last.src
        /\ last.pre[d].inputs[k] \notin {last.src, None}
        /\ scene[d].inputs[i] = last.tgt /\ scene[d].inputs[j] = last.tgt

\* C4: a native node without a stored profile name, or with an empty one,
\* is skipped by convert_back_to_tk_arnold_nodes: it still exists with the
\* same type, parameters, locks, user data, name and position, it is wired
\* as before (to the nodes of the same names, at the same inputs), no
\* toolkit node takes its name, and the nodes after it are still converted.
SameWiring(before, n, after, m) ==
    /\ DOMAIN after[m].inputs = DOMAIN before[n].inputs
    /\ \A i \in DOMAIN before[n].inputs :
        IF before[n].inputs[i] = None THEN after[m].inputs[i] = None
        ELSE /\ after[m].inputs[i] \in DOMAIN after
             /\ after[after[m].inputs[i]].name = before[before[n].inputs[i]].name
    /\ {<<before[c.outputNode].name, c.inputIndex>> : c \in OutputConnections(before, n)}
        = {<<after[c.outputNode].name, c.inputIndex>> : c \in OutputConnections(after, m)}

Unprofiled(s, n) ==
    s[n].type = HOU_ARNOLD_NODE_TYPE /\ StoredProfileName(s[n].user) = <<>>

C4_SkipWithoutProfile ==
    (last.op = "convert_back") =>
        /\ \A n \in DOMAIN last.pre :
            Unprofiled(last.pre, n) =>
                /\ n \in DOMAIN scene
                /\ scene[n].type = last.pre[n].type
                /\ scene[n].parms = last.pre[n].parms
                /\ scene[n].locked = last.pre[n].locked
                /\ scene[n].user = last.pre[n].user
                /\ scene[n].name = last.pre[n].name
                /\ scene[n].pos = last.pre[n].pos
                /\ SameWiring(last.pre, n, scene, n)
                /\ \A m \in DOMAIN scene :
                    scene[m].type = TK_ARNOLD_NODE_TYPE => scene[m].name # last.pre[n].name
        /\ last.exc = NoExc =>
            \A m \in DOMAIN scene :
                scene[m].type = HOU_ARNOLD_NODE_TYPE => Unprofiled(scene, m)

\* A batch that skipped one node and converted a later one.
C4_Witness ==
    /\ last.op = "convert_back"
    /\ last.exc = NoExc
    /\ \E n, m \in DOMAIN last.pre :
        /\ n < m
        /\ Unprofiled(last.pre, n)
        /\ last.pre[m].type = HOU_ARNOLD_NODE_TYPE /\ ~Unprofiled(last.pre, m)
        /\ m \notin DOMAIN scene
        /\ \E t \in DOMAIN scene :
            scene[t].type = TK_ARNOLD_NODE_TYPE /\ scene[t].name = last.pre[m].name

\* C5: reset_render_path on a node whose name starts with "original0"
\* writes no parameter and changes no lock of the node, called directly or
\* through set_profile, get_output_path_menu or use_file_plane: between its
\* entry and its return the log holds no set, lock or unlock, and a direct
\* call leaves the scene as it was.
EntersReset(log) == \E j \in DOMAIN log : log[j].ev = "reset_enter"

WritesInReset(log) ==
    {j \in DOMAIN log :
        /\ log[j].ev \in {"set", "lock", "unlock"}
        /\ \E a \in 1 .. (j - 1) : log[a].ev = "reset_enter"
        /\ \A b \in 1 .. (j - 1) : log[b].ev # "reset_return"}

PathCallbacks ==
    {"reset_render_path", "set_profile", "get_output_path_menu", "use_file_plane"}

BeingCopied == StartsWith(last.pre[last.src].name, "original0")

C5_NoWriteOnCopy ==
    (last.op \in PathCallbacks /\ BeingCopied /\ EntersReset(last.log)) =>
        /\ WritesInReset(last.log) = {}
        /\ \E j \in DOMAIN last.log : last.log[j].ev = "reset_return"
        /\ last.op = "reset_render_path" => (scene = last.pre /\ last.exc = NoExc)

\* A profile with settings was applied to a node being copied: set_profile
\* wrote the settings, and reset_render_path was entered.
C5_Witness ==
    /\ last.op = "set_profile"
    /\ BeingCopied
    /\ EntersReset(last.log)
    /\ scene # last.pre
    /\ last.pre[last.src].parms[NODE_OUTPUT_PATH_PARM].s = <<>>

\* C6: a menu query runs reset_render_path exactly when the node is
\* uninitialized (sgtk_initialized evaluates to "True", the value the query
\* tests) or the cached scene-file path differs from the live one; a query
\* that recomputes ends with the flag cleared and the live path cached, and
\* a query that follows it does not recompute.
Uninitialized(s, n) == Eval(s[n].parms[TK_INIT_PARM_NAME]).s = <<"True">>

HipChanged(s, n) == env.hip # Eval(s[n].parms[TK_HIP_PATH_PARM_NAME]).s

C6_RecomputeExactlyWhenStale ==
    last.op = "get_output_path_menu" =>
        LET n == last.src
        IN /\ EntersReset(last.log) <=> (Uninitialized(last.pre, n) \/ HipChanged(last.pre, n))
           /\ EntersReset(last.log) => (~Uninitialized(scene, n) /\ ~HipChanged(scene, n))
           /\ last.tgt # None => ~EntersReset(last.log)

\* C7: when the work-file template does not validate the scene file, or no
\* work-file template is configured, _compute_output_path raises the
\* TankError "not a Shotgun Toolkit work file" without having looked up
\* the profile or the template, and changes no parameter; what
\* reset_render_path then stores in the path parameters is the error text.
Unmanaged == ~env.workTemplate \/ ~Validate(WorkFileTemplate, env.hip)

SetsOf(log) == {log[j].parm : j \in {i \in DOMAIN log : log[i].ev = "set"}}

C7_UnmanagedFailsFirst ==
    /\ (last.op = "compute_output_path" /\ Unmanaged) =>
          /\ last.exc = "TankError"
          /\ last.ret.msg = NotAWorkFile
          /\ last.ret.path = <<>>
          /\ last.log = <<>>
          /\ scene = last.pre
    /\ (last.op = "reset_render_path" /\ Unmanaged) =>
          /\ \A j \in DOMAIN last.log : last.log[j].ev # "lookup"
          /\ \A p \in SetsOf(last.log) :
                StartsWith(p, TK_PREFIX) => scene[last.src].parms[p].s = <<"ERROR: ">> \o NotAWorkFile

\* A path was asked for in a scene file outside the project.
C7_Witness ==
    /\ last.op = "compute_output_path"
    /\ env.workTemplate
    /\ ~Validate(WorkFileTemplate, env.hip)
    /\ last.exc = "TankError"

\* C8 (as stated): for a scene file that matches the work-file template,
\* _compute_output_path returns a path, with no backslash in it on any
\* platform and no unresolved template key.
Placeholder(k) == "{" \o k \o "}"

Range(seq) == {seq[j] : j \in DOMAIN seq}

TemplateKeys == {"name", "node", "renderpass", "SEQ", "version", "eye", "aov_name", "Shot", "Step"}

Resolved(path) == \A k \in TemplateKeys : Placeholder(k) \notin Range(path)

FieldValues == Range(last.pre[last.src].name) \cup Range(last.ret.aov_name)

IsSelector(p) == StartsWith(p, "lpre") \/ StartsWith(p, "lpost")

\* The copy of p takes the evaluated-value branch and the target refuses it.
EvalMismatch(s, src, tgt, p) ==
    /\ p \in DOMAIN s[src].parms /\ p \in DOMAIN s[tgt].parms
    /\ s[src].parms[p].k = "int" /\ s[src].parms[p].keys = <<>>
    /\ s[tgt].parms[p].k = "str"

C9_SelectorFallback ==
    (last.op = "copy_parm_values") =>
        /\ last.exc = NoExc =>
            \A p \in DOMAIN last.pre[last.src].parms :
                (IsSelector(p) /\ EvalMismatch(last.pre, last.src, last.tgt, p)) =>
                    /\ last.pre[last.src].parms[p].i \in {0, 1}
                    /\ scene[last.tgt].parms[p] =
                        IF last.pre[last.src].parms[p].i = 0
                        THEN StrV(<<"hscript">>) ELSE StrV(<<"python">>)
        /\ (\E p \in DOMAIN last.pre[last.src].parms :
                ~IsSelector(p) /\ EvalMismatch(last.pre, last.src, last.tgt, p))
            => last.exc = "TypeError"

\* Both selector values were mapped in a copy that completed, and a copy
\* with a mismatch on another parameter failed.
C9_Witness ==
    /\ last.op = "copy_parm_values"
    /\ last.exc = NoExc
    /\ EvalMismatch(last.pre, last.src, last.tgt, <<"lpre", "render">>)
    /\ last.pre[last.src].parms[<<"lpre", "render">>].i = 1
    /\ scene[last.tgt].parms[<<"lpre", "render">>] = StrV(<<"python">>)
    /\ scene[last.tgt].parms[<<"lpost", "render">>] = StrV(<<"hscript">>)

\* C10: reset_render_path on a node that is not being copied does not raise
\* when a path cannot be computed: every path parameter of the template
\* mapping, and the file parameter of every plane with a file of its own,
\* whose computation raises TankError holds "ERROR: " and the message;
\* every one of these parameters was written and locked, and update_parms
\* ran after them.
PlaneFileParm(m) == <<"sgtk_", "ar_aov_separate_file", ToString(m)>>

SeparatePlanes(s, n) ==
    {m \in DOMAIN GetExtraPlaneNumbers(s, n) :
        Eval(s[n].parms[<<"ar_aov_separate", ToString(m)>>]).i # 0}

\* The parameters reset_render_path computes, each with its computation.
Computed(s, n) ==
    {<<TK_RENDER_TEMPLATE_MAPPING[j][1],
       ComputeOutputPath(s, env, n, TK_RENDER_TEMPLATE_MAPPING[j][2], <<>>)>> :
        j \in DOMAIN TK_RENDER_TEMPLATE_MAPPING}
    \cup {<<PlaneFileParm(m),
            ComputeOutputPath(s, env, n, "output_extra_plane_template",
                              Eval(s[n].parms[TK_EXTRA_PLANES_NAME(m)]).s)>> :
            m \in SeparatePlanes(s, n)}

C10_ErrorsAreStored ==
    (last.op = "reset_render_path" /\ ~BeingCopied) =>
        LET n == last.src
        IN /\ last.exc = NoExc
           /\ last.log[Len(last.log)].ev = "reset_return"
           /\ \A c \in Computed(last.pre, n) :
                 /\ c[1] \in SetsOf(last.log)
                 /\ c[1] \in scene[n].locked
                 /\ c[2].exc = "TankError" =>
                       /\ StartsWith(scene[n].parms[c[1]].s, "ERROR: ")
                       /\ scene[n].parms[c[1]].s = <<"ERROR: ">> \o c[2].msg
                 /\ c[2].exc = NoExc => scene[n].parms[c[1]].s = c[2].path
           /\ scene[n].parms[<<"ar_ass_file">>].s = scene[n].parms[<<"sgtk_", "ass_diskfile">>].s
           /\ scene[n].parms[<<"ar_picture">>].s = scene[n].parms[NODE_OUTPUT_PATH_PARM].s

\* The render template could not be applied, a plane's label was empty, and
\* the scene-description path was computed all the same.
C10_Witness ==
    /\ last.op = "reset_render_path"
    /\ ~BeingCopied
    /\ StartsWith(scene[last.src].parms[NODE_OUTPUT_PATH_PARM].s, "ERROR: ")
    /\ ~StartsWith(scene[last.src].parms[<<"sgtk_", "ass_diskfile">>].s, "ERROR: ")
    /\ \E m \in SeparatePlanes(last.pre, last.src) :
          scene[last.src].parms[PlaneFileParm(m)].s = <<"ERROR: ", "missing field ", "aov_name">>

\* C11: show_in_fs on a platform that is none of linux2, darwin, win32 logs
\* an error, shows a dialog, runs no shell command and returns without
\* raising.
Logs(log, ev) == \E j \in DOMAIN log : log[j].ev = ev

C11_UnsupportedPlatformReturns ==
    (last.op = "show_in_fs" /\ env.platform \notin SupportedPlatforms) =>
        /\ last.exc = NoExc
        /\ Logs(last.log, "log_error")
        /\ Logs(last.log, "displayMessage")
        /\ ~Logs(last.log, "system")

\* C12 (as stated): in a batch conversion a hard failure on one node does
\* not prevent the conversion of the other matching nodes: every matching
\* node whose own conversion succeeds is converted when the batch ends.
IsBatch == last.op \in {"convert_to_regular", "convert_back"}

SourceType == IF last.op = "convert_to_regular" THEN TK_ARNOLD_NODE_TYPE
              ELSE HOU_ARNOLD_NODE_TYPE

TargetType == IF last.op = "convert_to_regular" THEN HOU_ARNOLD_NODE_TYPE
              ELSE TK_ARNOLD_NODE_TYPE

\* The nodes the batch has to convert, in the order it takes them.
Matching ==
    SelectSeq(Instances(last.pre, SourceType),
              LAMBDA n : last.op = "convert_back" => ~Unprofiled(last.pre, n))

ConvertAlone(n) ==
    IF last.op = "convert_to_regular" THEN ConvertOneToRegular(last.pre, env, n)
    ELSE ConvertOneBack(last.pre, env, n)

Converted(n) ==
    /\ \E m \in DOMAIN scene :
          scene[m].name = last.pre[n].name /\ scene[m].type = TargetType
    /\ \A m \in DOMAIN scene :
          scene[m].name = last.pre[n].name => scene[m].type # SourceType

NotConverted(n) ==
    /\ n \in DOMAIN scene
    /\ scene[n].type = SourceType
    /\ scene[n].name = last.pre[n].name
    /\ scene[n].parms = last.pre[n].parms
    /\ scene[n].user = last.pre[n].user

DerivedPathParms ==
    {TK_RENDER_TEMPLATE_MAPPING[j][1] : j \in DOMAIN TK_RENDER_TEMPLATE_MAPPING}
    \cup {PlaneFileParm(m) : m \in 1 .. MaxPlanes}

GuardedWrite(log, j) ==
    /\ j > 1 /\ j < Len(log)
    /\ log[j - 1].ev = "unlock" /\ log[j - 1].parm = log[j].parm
    /\ log[j + 1].ev = "lock" /\ log[j + 1].parm = log[j].parm

C13_DerivedWritesAreGuarded ==
    (last.op \in PathCallbacks) =>
        LET n == last.src
        IN /\ \A j \in DOMAIN last.log :
                 (last.log[j].ev = "set" /\ last.log[j].parm \in DerivedPathParms) =>
                     /\ GuardedWrite(last.log, j)
                     /\ last.log[j].parm \in scene[n].locked
           /\ \A j \in DOMAIN last.log :
                 last.log[j].ev \in {"lock", "unlock"} => last.log[j].parm \in DerivedPathParms
           /\ scene[n].locked \cap DerivedPathParms
                 = (last.pre[n].locked \cup SetsOf(last.log)) \cap DerivedPathParms
           /\ (last.op = "reset_render_path" /\ ~BeingCopied) =>
                 {c[1] : c \in Computed(last.pre, n)} \subseteq scene[n].locked

\* A plane's checkbox was cleared: its file parameter, unlocked before,
\* holds "Disabled" and is locked.
C13_Witness ==
    /\ last.op = "use_file_plane"
    /\ \E m \in DOMAIN GetExtraPlaneNumbers(scene, last.src) :
          /\ PlaneFileParm(m) \notin last.pre[last.src].locked
          /\ scene[last.src].parms[PlaneFileParm(m)].s = <<"Disabled">>
          /\ PlaneFileParm(m) \in scene[last.src].locked

\* C16: after reset_render_path on a node that is not being copied,
\* sgtk_ar_picture and ar_picture hold the unexpanded string of
\* sgtk_ar_filename, ar_ass_file holds that of sgtk_ass_diskfile, and for
\* every plane n in 1..ar_aovs ar_aov_separate_file<n> holds that of
\* sgtk_ar_aov_separate_file<n>; the file parameter of a plane is written
\* only when the plane's checkbox is set.
Raw(s, n, p) == s[n].parms[p].s

C16_DependentsAgree ==
    (last.op = "reset_render_path" /\ ~BeingCopied) =>
        LET n == last.src
        IN /\ last.exc = NoExc
           /\ Raw(scene, n, <<"sgtk_", "ar_picture">>) = Raw(scene, n, NODE_OUTPUT_PATH_PARM)
           /\ Raw(scene, n, <<"ar_picture">>) = Raw(scene, n, NODE_OUTPUT_PATH_PARM)
           /\ Raw(scene, n, <<"ar_ass_file">>) = Raw(scene, n, <<"sgtk_", "ass_diskfile">>)
           /\ \A m \in DOMAIN GetExtraPlaneNumbers(scene, n) :
                 /\ Raw(scene, n, <<"ar_aov_separate_file", ToString(m)>>)
                       = Raw(scene, n, PlaneFileParm(m))
                 /\ m \notin SeparatePlanes(last.pre, n) =>
                       /\ PlaneFileParm(m) \notin SetsOf(last.log)
                       /\ Raw(scene, n, PlaneFileParm(m)) = Raw(last.pre, n, PlaneFileParm(m))
                 /\ m \in SeparatePlanes(last.pre, n) => PlaneFileParm(m) \in SetsOf(last.log)

\* A node with a plane that has a file of its own was refreshed in a work
\* file: the plane's path holds the frame variable, unexpanded, in both
\* parameters.
C16_Witness ==
    /\ last.op = "reset_render_path"
    /\ ~BeingCopied
    /\ \E m \in SeparatePlanes(last.pre, last.src) :
          /\ "$F" \in Range(Raw(scene, last.src, <<"ar_aov_separate_file", ToString(m)>>))
          /\ Raw(last.pre, last.src, <<"ar_aov_separate_file", ToString(m)>>) = <<>>

\* C14: in the toolkit-to-native conversion the exclusion list given to
\* _copy_parm_values removes the "sgtk_" parameters: none of them is among
\* the source parameters the copy loop goes through.
C14_ExclusionRemovesPrefixed ==
    last.op = "convert_to_regular" =>
        \A n \in Range(Instances(last.pre, TK_ARNOLD_NODE_TYPE)) :
            \A p \in Range(SourceParms(last.pre, n, ExcludeParms(last.pre, n))) :
                ~StartsWith(p, TK_PREFIX)

\* C15: in the native-to-toolkit conversion, a node whose stored profile
\* name is not among the labels of the profile menu gets a warning, and its
\* conversion goes on as it would with a known name: the new toolkit node
\* has the default selector, the copied parameter values, the stored plane
\* labels, the wiring, the name and the position of the native node, which
\* is destroyed.
UnknownProfile(s, n) ==
    /\ ~Unprofiled(s, n)
    /\ StoredProfileName(s[n].user) \notin Range(env.labels)

Warned(n) ==
    \E j \in DOMAIN last.log :
        last.log[j] = [ev |-> "warning", node |-> n, parm |-> <<"No output profile found">>]

\* The same conversion in a session whose profiles include the stored name.
WithKnownProfile(n) ==
    ConvertOneBack(last.pre,
                   [env EXCEPT !.labels = <<StoredProfileName(last.pre[n].user)>> \o @],
                   n)

CompletedBack(n) ==
    /\ Converted(n)
    /\ n \notin DOMAIN scene \/ scene[n].type # HOU_ARNOLD_NODE_TYPE
    /\ LET o == last.pre[n]
           m == CHOOSE m \in DOMAIN scene :
                    scene[m].name = o.name /\ scene[m].type = TK_ARNOLD_NODE_TYPE
           c == scene[m]
       IN /\ c.parms[TK_OUTPUT_PROFILE_PARM] = TkDefaults[TK_OUTPUT_PROFILE_PARM]
          /\ c.pos = o.pos
          /\ \A p \in DOMAIN o.parms :
                (o.parms[p].k # "folder" /\ p \in DOMAIN c.parms
                 /\ p \notin {TK_EXTRA_PLANES_NAME(k) : k \in 1 .. MaxPlanes})
                    => c.parms[p] = o.parms[p]
          /\ \A k \in DOMAIN GetExtraPlaneNumbers(last.pre, n) :
                c.parms[TK_EXTRA_PLANES_NAME(k)].s = o.user[TK_EXTRA_PLANES_NAME(k)]
          /\ \A i \in DOMAIN o.inputs :
                o.inputs[i] # None =>
                    /\ i \in DOMAIN c.inputs
                    /\ c.inputs[i] \in DOMAIN scene
                    /\ scene[c.inputs[i]].name = last.pre[o.inputs[i]].name
          /\ {<<last.pre[x.outputNode].name, x.inputIndex>> : x \in OutputConnections(last.pre, n)}
                = {<<scene[x.outputNode].name, x.inputIndex>> : x \in OutputConnections(scene, m)}

C15_UnknownProfileFallsBack ==
    last.op = "convert_back" =>
        \A j \in DOMAIN Matching :
            LET n == Matching[j]
            IN UnknownProfile(last.pre, n) =>
                  /\ (j = 1 \/ last.exc = NoExc) => Warned(n)
                  /\ (last.exc = NoExc \/ (j = 1 /\ WithKnownProfile(n).exc = NoExc))
                        => CompletedBack(n)

\* The profiles of the session changed after the conversion to native
\* nodes; the first native node, stored with a profile that is gone, was
\* converted back.
C15_Witness ==
    /\ last.op = "convert_back"
    /\ Len(Matching) > 0
    /\ UnknownProfile(last.pre, Matching[1])
    /\ Warned(Matching[1])
    /\ CompletedBack(Matching[1])
    /\ last.pre[Matching[1]].parms[TK_EXTRA_PLANE_COUNT_PARM].i > 0

\* C17: when the source has no more input connections than the target has
\* input connectors, _copy_inputs returns with every input connection of
\* the source copied to the target, same upstream node at the same index,
\* and with the source's inputs as they were, wherever the source's
\* connections sit.
C17_CopiedWhenCountFits ==
    (/\ last.op = "copy_inputs"
     /\ Len(InputConnections(last.pre, last.src))
            <= NumInputConnectors(last.pre, last.tgt))
    => /\ last.exc = NoExc
       /\ \A j \in DOMAIN InputConnections(last.pre, last.src) :
             LET c == InputConnections(last.pre, last.src)[j]
             IN /\ c.inputIndex \in DOMAIN scene[last.tgt].inputs
                /\ scene[last.tgt].inputs[c.inputIndex] = c.inputNode
       /\ scene[last.src].inputs = last.pre[last.src].inputs

====
